---- MODULE Spec2Model ----
(***************************************************************************)
(* A model of the linear-algebra simulator of Grover's search:            *)
(* Structures/Gate.py, Structures/Oracle.py, Structures/Diffusions.py,    *)
(* Structures/Registers.py, Structures/Qubit.py, Algorithms/grover.py and *)
(* the loop of Tests/tests_for_grover.py.                                  *)
(*                                                                         *)
(* Numbers.  The program computes in complex128.  Every number it builds  *)
(* from its own constants (0, 1, -1, 2, 1/sqrt(2), 1/sqrt(2^n)) lies in   *)
(* the ring Z[sqrt 2][1/2][i], so the model computes there exactly: a     *)
(* real is (a + b*sqrt2) / 2^k, kept in lowest terms, and a complex is a  *)
(* pair of reals.  np.allclose and the sum-to-one test of                 *)
(* np.random.choice are tolerance tests in the program; on exact values   *)
(* of this ring with small coefficients they are equalities.              *)
(*                                                                         *)
(* Arrays.  A 2-D ndarray is a sequence of rows (index i of the program   *)
(* is index i+1 here); the (2^n,1) state of a register is a matrix with   *)
(* one column.                                                             *)
(***************************************************************************)
EXTENDS Integers, Sequences, FiniteSets, TLC

(***************************************************************************)
(* Reals (a + b*sqrt2) / 2^k                                               *)
(***************************************************************************)
RECURSIVE Pow2(_)
Pow2(k) == IF k = 0 THEN 1 ELSE 2 * Pow2(k - 1)

RECURSIVE RNorm(_)
RNorm(x) ==
    IF x.k > 0 /\ x.a % 2 = 0 /\ x.b % 2 = 0
    THEN RNorm([a |-> x.a \div 2, b |-> x.b \div 2, k |-> x.k - 1])
    ELSE IF x.a = 0 /\ x.b = 0 THEN [a |-> 0, b |-> 0, k |-> 0] ELSE x

R(a, b, k) == RNorm([a |-> a, b |-> b, k |-> k])

RZero == [a |-> 0, b |-> 0, k |-> 0]
ROne == [a |-> 1, b |-> 0, k |-> 0]

RInt(m) == [a |-> m, b |-> 0, k |-> 0]

RAdd(x, y) ==
    IF x = RZero THEN y
    ELSE IF y = RZero THEN x
    ELSE IF x.k >= y.k
         THEN R(x.a + y.a * Pow2(x.k - y.k), x.b + y.b * Pow2(x.k - y.k), x.k)
         ELSE R(x.a * Pow2(y.k - x.k) + y.a, x.b * Pow2(y.k - x.k) + y.b, y.k)

RNeg(x) == [a |-> -x.a, b |-> -x.b, k |-> x.k]

RSub(x, y) == RAdd(x, RNeg(y))

RMul(x, y) ==
    IF x = RZero \/ y = RZero THEN RZero
    ELSE IF x = ROne THEN y
    ELSE IF y = ROne THEN x
    ELSE R(x.a * y.a + 2 * x.b * y.b, x.a * y.b + x.b * y.a, x.k + y.k)

\* the sign of a + b*sqrt2: compare a^2 with 2*b^2 when a and b disagree
RPositive(x) ==
    \/ x.a > 0 /\ x.b >= 0
    \/ x.a >= 0 /\ x.b > 0
    \/ x.a > 0 /\ x.b < 0 /\ x.a * x.a > 2 * x.b * x.b
    \/ x.a < 0 /\ x.b > 0 /\ 2 * x.b * x.b > x.a * x.a

\* floor(log2(m)) for m >= 1; exact on powers of two
RECURSIVE FloorLog2(_)
FloorLog2(m) == IF m <= 1 THEN 0 ELSE 1 + FloorLog2(m \div 2)

\* 2^j and sqrt2 * 2^j for any integer j
RPow2(j) == IF j >= 0 THEN RInt(Pow2(j)) ELSE R(1, 0, -j)
RSqrt2Pow2(j) == IF j >= 0 THEN [a |-> 0, b |-> Pow2(j), k |-> 0] ELSE R(0, 1, -j)

IsPowerOfTwo(m) == m >= 1 /\ Pow2(FloorLog2(m)) = m

\* np.sqrt(x) for x = 2^j: the square roots the program takes are of 2, of
\* size = 2^n and of squared norms that are powers of two
RSqrt(x) ==
    CASE x = RZero -> RZero
      [] x.b = 0 /\ IsPowerOfTwo(x.a) ->
            LET j == FloorLog2(x.a) - x.k
            IN  IF j % 2 = 0 THEN RPow2(j \div 2) ELSE RSqrt2Pow2((j - 1) \div 2)

\* 1 / y for y = 2^j or y = sqrt2 * 2^j
RInv(y) ==
    CASE y.b = 0 /\ IsPowerOfTwo(y.a) -> RPow2(y.k - FloorLog2(y.a))
      [] y.a = 0 /\ IsPowerOfTwo(y.b) -> RSqrt2Pow2(y.k - FloorLog2(y.b) - 1)

(***************************************************************************)
(* Complex numbers                                                         *)
(***************************************************************************)
C(re, im) == [re |-> re, im |-> im]

CZero == C(RZero, RZero)
COne == C(ROne, RZero)
CInt(m) == C(RInt(m), RZero)
CReal(x) == C(x, RZero)
CI == C(RZero, ROne)

CAdd(x, y) == C(RAdd(x.re, y.re), RAdd(x.im, y.im))
CNeg(x) == C(RNeg(x.re), RNeg(x.im))
CSub(x, y) == C(RSub(x.re, y.re), RSub(x.im, y.im))

CMul(x, y) ==
    IF x = CZero \/ y = CZero THEN CZero
    ELSE C(RSub(RMul(x.re, y.re), RMul(x.im, y.im)),
           RAdd(RMul(x.re, y.im), RMul(x.im, y.re)))

CConj(x) == C(x.re, RNeg(x.im))

\* np.abs(z) ** 2
Abs2(z) == RAdd(RMul(z.re, z.re), RMul(z.im, z.im))

(***************************************************************************)
(* numpy arrays: a 2-D array is a sequence of rows                         *)
(***************************************************************************)
Rows(M) == Len(M)
Cols(M) == Len(M[1])

\* the arrays are built entry by entry into tuples: <<F(lo), ..., F(hi)>>
RECURSIVE SeqRange(_, _, _)
SeqRange(F(_), lo, hi) ==
    IF lo > hi THEN <<>>
    ELSE IF lo = hi THEN <<F(lo)>>
    ELSE LET mid == (lo + hi) \div 2
         IN  SeqRange(F, lo, mid) \o SeqRange(F, mid + 1, hi)

SeqOf(F(_), n) == SeqRange(F, 1, n)

\* F(lo) + ... + F(hi) over the complex numbers
RECURSIVE CSumRange(_, _, _)
CSumRange(F(_), lo, hi) ==
    IF lo > hi THEN CZero
    ELSE IF lo = hi THEN F(lo)
    ELSE LET mid == (lo + hi) \div 2
         IN  CAdd(CSumRange(F, lo, mid), CSumRange(F, mid + 1, hi))

\* the r x c array whose entry (i, j) is F(i, j)
Mat(r, c, F(_, _)) == SeqOf(LAMBDA i : SeqOf(LAMBDA j : F(i, j), c), r)

\* np.zeros((r, c), dtype=complex), np.ones((r, c), dtype=complex)
Zeros(r, c) == Mat(r, c, LAMBDA i, j : CZero)
Ones(r, c) == Mat(r, c, LAMBDA i, j : COne)

\* np.eye(size, dtype=complex)
Eye(size) == Mat(size, size, LAMBDA i, j : IF i = j THEN COne ELSE CZero)

\* np.diag(d) of a list d
Diag(d) == Mat(Len(d), Len(d), LAMBDA i, j : IF i = j THEN d[i] ELSE CZero)

\* M.T, M.conj()
Transpose(M) == Mat(Cols(M), Rows(M), LAMBDA j, i : M[i][j])
Conj(M) == Mat(Rows(M), Cols(M), LAMBDA i, j : CConj(M[i][j]))

\* scalar * M, M / scalar (through the reciprocal), A - B
Scale(c, M) == Mat(Rows(M), Cols(M), LAMBDA i, j : CMul(c, M[i][j]))
MatSub(A, B) == Mat(Rows(A), Cols(A), LAMBDA i, j : CSub(A[i][j], B[i][j]))

\* A @ B raises ValueError unless the inner dimensions agree
CanMatMul(A, B) == Cols(A) = Rows(B)

MatMul(A, B) ==
    Mat(Rows(A), Cols(B),
        LAMBDA i, j : CSumRange(LAMBDA k : CMul(A[i][k], B[k][j]), 1, Cols(A)))

\* np.kron(A, B): block (i, j) of the result is A[i][j] * B
Kron(A, B) ==
    LET rb == Rows(B)
        cb == Cols(B)
    IN  Mat(Rows(A) * rb, Cols(A) * cb,
            LAMBDA i, j : CMul(A[((i - 1) \div rb) + 1][((j - 1) \div cb) + 1],
                               B[((i - 1) % rb) + 1][((j - 1) % cb) + 1]))

\* M.flatten() of a column
Flatten(M) == SeqOf(LAMBDA i : M[i][1], Rows(M))

\* np.allclose(A, B) on exact values
AllClose(A, B) == A = B

(***************************************************************************)
(* Structures/Gate.py                                                      *)
(***************************************************************************)
\* GenericGate(gate_matrix): the object holds the matrix and nothing else
GenericGate(gate_matrix) == [gate_matrix |-> gate_matrix]

Gate_X == GenericGate(<< <<CZero, COne>>, <<COne, CZero>> >>)

\* 1 / np.sqrt(2)
InvSqrt2 == CReal(RInv(RSqrt(RInt(2))))

\* Gate_H with the factor 1 / np.sqrt(2) left out
Gate_H_unscaled == GenericGate(<< <<COne, COne>>, <<COne, CNeg(COne)>> >>)

Gate_H == GenericGate(Scale(InvSqrt2, << <<COne, COne>>, <<COne, CNeg(COne)>> >>))

Gate_Z == GenericGate(<< <<COne, CZero>>, <<CZero, CNeg(COne)>> >>)

tensor(self, other_gate) == GenericGate(Kron(self.gate_matrix, other_gate.gate_matrix))

\* a tensor call whose result overwrites self.gate_matrix and returns self
tensor_call_in_place(self, other_gate) ==
    LET product == tensor(self, other_gate)
    IN  [ret |-> product, self |-> product, other_gate |-> other_gate]

\* self.tensor(other_gate) as a call: the returned gate and the two gates
\* after it (np.kron reads its arguments; the result goes to a new GenericGate)
tensor_call(self, other_gate) ==
    [ret |-> tensor(self, other_gate), self |-> self, other_gate |-> other_gate]

matmul(self, other) == GenericGate(MatMul(self.gate_matrix, other.gate_matrix))

is_unitary(self) ==
    LET identity == Eye(Rows(self.gate_matrix))
        product == MatMul(Transpose(Conj(self.gate_matrix)), self.gate_matrix)
    IN  AllClose(product, identity)

(***************************************************************************)
(* Structures/Oracle.py                                                    *)
(***************************************************************************)
\* -1 ** e, which Python reads as -(1 ** e)
PowMinusOne_precedence(e) == CInt(-1)

\* (-1) ** e for the values a predicate returns
PowMinusOne(e) == IF e % 2 = 0 THEN CInt(1) ELSE CInt(-1)

\* GenericOracle.get_matrix: f is the predicate, a function on 0..2^n-1
Oracle_get_matrix(n, f) ==
    LET size == Pow2(n)
        diag == SeqOf(LAMBDA i : PowMinusOne(f[i - 1]), size)
    IN  Diag(diag)

\* x >> s and x & 1 on non-negative integers
Shr(x, s) == x \div Pow2(s)
BitAnd1(x, y) == IF x % 2 = 1 /\ y % 2 = 1 THEN 1 ELSE 0

\* OracleAND.get_function: lambda x: ((x >> 1) & 1) & (x & 1)
\* a predicate marking every x with a bit set: f(x) = x1 | x0
OracleAND_function_or ==
    [x \in 0..3 |-> IF Shr(x, 1) % 2 = 1 THEN 1 ELSE BitAnd1(x, 1)]

OracleAND_function == [x \in 0..3 |-> BitAnd1(BitAnd1(Shr(x, 1), 1), BitAnd1(x, 1))]

(***************************************************************************)
(* Structures/Diffusions.py                                                *)
(***************************************************************************)
\* StandardDiffusion.get_psi with the division by np.sqrt(size) left out
get_psi_unnormalised(n) == Ones(Pow2(n), 1)

\* StandardDiffusion.get_psi
get_psi(n) ==
    LET size == Pow2(n)
    IN  Scale(CReal(RInv(RSqrt(RInt(size)))), Ones(size, 1))

\* GenericDiffusion.get_matrix with the factor 2 of the projector left out
Diffusion_get_matrix_no_factor(n) ==
    LET size == Pow2(n)
        psi == get_psi(n)
        projector == MatMul(psi, Conj(Transpose(psi)))
        identity == Eye(size)
    IN  MatSub(projector, identity)

\* GenericDiffusion.get_matrix
Diffusion_get_matrix(n) ==
    LET size == Pow2(n)
        psi == get_psi(n)
        projector == Scale(CInt(2), MatMul(psi, Conj(Transpose(psi))))
        identity == Eye(size)
    IN  MatSub(projector, identity)

(***************************************************************************)
(* Structures/Registers.py                                                 *)
(***************************************************************************)
\* GenericRegister.__init__ with state[-1][0] = 1 in place of state[0][0] = 1
QuantumRegister_last_index(num_qubits) ==
    [num_qubits |-> num_qubits,
     state |-> Mat(Pow2(num_qubits), 1,
                   LAMBDA i, j : IF i = Pow2(num_qubits) THEN COne ELSE CZero)]

\* GenericRegister.__init__: zeros((2 ** num_qubits, 1)), then state[0][0] = 1
QuantumRegister(num_qubits) ==
    [num_qubits |-> num_qubits,
     state |-> Mat(Pow2(num_qubits), 1, LAMBDA i, j : IF i = 1 THEN COne ELSE CZero)]

\* the state cut or zero-padded to len rows
Resize(state, len) == Mat(len, 1, LAMBDA i, j : IF i <= Rows(state) THEN state[i][1] ELSE CZero)

\* GenericRegister.apply_gate that fits the state to the matrix instead of raising
apply_gate_resizing(self, gate_matrix) ==
    [self |-> [self EXCEPT !.state = MatMul(gate_matrix, Resize(self.state, Cols(gate_matrix)))],
     raised |-> "none"]

\* GenericRegister.apply_gate: the register after the call, and what was
\* raised.  The assignment to self.state happens only if @ returned.
apply_gate(self, gate_matrix) ==
    IF CanMatMul(gate_matrix, self.state)
    THEN [self |-> [self EXCEPT !.state = MatMul(gate_matrix, self.state)],
          raised |-> "none"]
    ELSE [self |-> self, raised |-> "ValueError"]

\* F(1) + ... + F(n) over the reals
RECURSIVE RSumRange(_, _, _)
RSumRange(F(_), lo, hi) ==
    IF lo > hi THEN RZero
    ELSE IF lo = hi THEN F(lo)
    ELSE LET mid == (lo + hi) \div 2
         IN  RAdd(RSumRange(F, lo, mid), RSumRange(F, mid + 1, hi))

\* np.abs(self.state.flatten()) ** 2
Probabilities(state) ==
    LET flat == Flatten(state)
    IN  SeqOf(LAMBDA i : Abs2(flat[i]), Len(flat))

\* np.random.choice(a) with the argument p left out
choice_ignoring_p(a, p) == 0..(a - 1)

\* np.random.choice(a, p=p): ValueError unless p sums to 1; otherwise any
\* index of non-zero probability
choice_raises(p) == RSumRange(LAMBDA i : p[i], 1, Len(p)) # ROne
choice(a, p) == {x \in 0..(a - 1) : p[x + 1] # RZero}

\* GenericRegister.measure that collapses the state onto the index it returns
measure_collapsing(self) ==
    LET probabilities == Probabilities(self.state)
    IN  IF choice_raises(probabilities)
        THEN {[ret |-> -1, self |-> self, raised |-> "ValueError"]}
        ELSE {[ret |-> x,
               self |-> [self EXCEPT !.state =
                            Mat(Len(probabilities), 1,
                                LAMBDA i, j : IF i = x + 1 THEN COne ELSE CZero)],
               raised |-> "none"] :
                  x \in choice(Len(probabilities), probabilities)}

\* GenericRegister.measure: every (returned index, register after the call)
\* the call can end with
measure(self) ==
    LET probabilities == Probabilities(self.state)
    IN  IF choice_raises(probabilities)
        THEN {[ret |-> -1, self |-> self, raised |-> "ValueError"]}
        ELSE {[ret |-> x, self |-> self, raised |-> "none"] :
                  x \in choice(Len(probabilities), probabilities)}

(***************************************************************************)
(* Structures/Qubit.py                                                     *)
(***************************************************************************)
\* np.linalg.norm(v) ** 2
Norm2(v) == RSumRange(LAMBDA k : Abs2(v[k][1]), 1, Rows(v))

\* Qubit.__init__ with _normalize: a zero vector is left as it is
Qubit(alfa_beta) ==
    LET norm == RSqrt(Norm2(alfa_beta))
    IN  IF norm # RZero
        THEN [alfa_beta |-> Scale(CReal(RInv(norm)), alfa_beta)]
        ELSE [alfa_beta |-> alfa_beta]

\* Qubit.apply_gate: the Qubit returned (self is not assigned), what was raised
Qubit_apply_gate(self, gate_matrix) ==
    IF CanMatMul(gate_matrix, self.alfa_beta)
    THEN [ret |-> Qubit(MatMul(gate_matrix, self.alfa_beta)), self |-> self, raised |-> "none"]
    ELSE [ret |-> self, self |-> self, raised |-> "ValueError"]

(***************************************************************************)
(* Oracle objects.  cls "GenericOracle" and "OracleAND" build their matrix *)
(* from (n, f); cls "Oracle" is any other implementation of the abstract   *)
(* class, which returns the matrix it was given.                           *)
(***************************************************************************)
NoMatrix == << <<CZero>> >>

GenericOracle(n, f) == [cls |-> "GenericOracle", n |-> n, f |-> f, matrix |-> NoMatrix]

OracleAND == [cls |-> "OracleAND", n |-> 2, f |-> OracleAND_function, matrix |-> NoMatrix]

CustomOracle(matrix) == [cls |-> "Oracle", n |-> 0, f |-> [x \in {0} |-> 0], matrix |-> matrix]

Oracle_to_gate(o) ==
    IF o.cls = "Oracle" THEN GenericGate(o.matrix)
    ELSE GenericGate(Oracle_get_matrix(o.n, o.f))

\* StandardDiffusion(n).to_gate()
Diffusion_to_gate(n) == GenericGate(Diffusion_get_matrix(n))

(***************************************************************************)
(* Algorithms/grover.py                                                    *)
(***************************************************************************)
\* int(np.log2(d)) for d >= 1
IntLog2(d) == FloorLog2(d)

\* h_total after the loop "for _ in range(n - 1): h_total = h_total.tensor(h)"
RECURSIVE FoldTensor(_, _, _)
FoldTensor(h_total, h, times) ==
    IF times <= 0 THEN h_total ELSE FoldTensor(tensor(h_total, h), h, times - 1)

(***************************************************************************)
(* Bounds and inputs                                                       *)
(***************************************************************************)
\* qubit counts 1..MaxQubits
MaxQubits == 4
\* every predicate is drawn for n <= FullPredQubits, three of them above
FullPredQubits == 2
\* oracle matrices of a dimension that is no power of two: 3..MaxOracleDim
MaxOracleDim == 7
\* registers of 1..MaxRegQubits qubits under free use, MaxCalls calls each
MaxRegQubits == 2
MaxCalls == 3
\* attempts = 20 in test_run_grover
Attempts == 20
\* analyze_probability is called with max_iterations in 0..MaxIterations
MaxIterations == 8

MarkNone(n) == [x \in 0..(Pow2(n) - 1) |-> 0]
MarkAll(n) == [x \in 0..(Pow2(n) - 1) |-> 1]
MarkLast(n) == [x \in 0..(Pow2(n) - 1) |-> IF x = Pow2(n) - 1 THEN 1 ELSE 0]

Predicates(n) ==
    IF n <= FullPredQubits THEN [0..(Pow2(n) - 1) -> {0, 1}]
    ELSE {MarkNone(n), MarkAll(n), MarkLast(n)}

GenericOracles(maxn) == UNION {{GenericOracle(k, f) : f \in Predicates(k)} : k \in 1..maxn}

\* sign matrices of a dimension that is no power of two
CustomOracles ==
    {CustomOracle(Diag(SeqOf(LAMBDA i : IF i = d /\ mark = 1 THEN CInt(-1) ELSE COne, d))) :
        d \in {e \in 3..MaxOracleDim : ~IsPowerOfTwo(e)}, mark \in {0, 1}}

Oracles == {OracleAND} \cup GenericOracles(MaxQubits) \cup CustomOracles

OracleDim(o) == Rows(Oracle_to_gate(o).gate_matrix)

(***************************************************************************)
(* State                                                                   *)
(***************************************************************************)
VARIABLES
    caller,         \* who called run_grover: "none", "user", "test"
    oracle,         \* run_grover's argument
    pc,             \* the statement run_grover / test_run_grover is at
    n,              \* run_grover's local n
    reg,            \* the Register object (NoReg before it is constructed)
    gates_applied,  \* apply_gate calls of the current run that returned
    result,         \* the last value measure / run_grover returned
    err,            \* the exception raised, "none" if none
    i,              \* test_run_grover's loop index
    hits,           \* test_run_grover's hits
    last_call,      \* free use of a register: the last call made
    calls,          \* free use of a register: calls made so far
    qubit,          \* a Qubit object
    op,             \* operator algebra: what is being built (kind, n, f)
    gate,           \* operator algebra: the GenericGate built
    verdict,        \* operator algebra: what is_unitary returned
    reflected,      \* operator algebra: D @ psi
    operands,       \* tensor: the gates self and other_gate of a tensor call
    product,        \* tensor: the gate the tensor call returned
    max_iterations, \* analyze_probability's argument
    results         \* analyze_probability's list of probabilities

vars == <<caller, oracle, pc, n, reg, gates_applied, result, err, i, hits,
          last_call, calls, qubit, op, gate, verdict, reflected,
          operands, product, max_iterations, results>>

driverVars == <<caller, oracle, pc, n, gates_applied, i, hits>>
freeVars == <<last_call, calls, qubit>>
algebraVars == <<op, gate, verdict, reflected>>
tensorVars == <<operands, product>>
analyzeVars == <<max_iterations, results>>

NoReg == [num_qubits |-> -1, state |-> NoMatrix]
NoResult == -1
NoGate == GenericGate(NoMatrix)
NoQubit == [alfa_beta |-> NoMatrix]
NoPredicate == [x \in {0} |-> 0]
NoOp == [kind |-> "none", n |-> 0, f |-> NoPredicate]
NoCall == [op |-> "none", arg |-> NoMatrix]
NoOperands == [self |-> NoGate, other_gate |-> NoGate]

DriverIdle ==
    /\ caller = "none" /\ oracle = OracleAND /\ pc = "idle" /\ n = 0
    /\ gates_applied = 0 /\ i = 0 /\ hits = 0
FreeIdle == last_call = NoCall /\ calls = 0 /\ qubit = NoQubit
AlgebraIdle == op = NoOp /\ gate = NoGate /\ verdict = "unchecked" /\ reflected = NoMatrix
TensorIdle == operands = NoOperands /\ product = NoGate
AnalyzeIdle == max_iterations = 0 /\ results = <<>>

(***************************************************************************)
(* run_grover (Algorithms/grover.py) and test_run_grover (Tests)           *)
(***************************************************************************)
Init ==
    /\ DriverIdle /\ FreeIdle /\ AlgebraIdle /\ TensorIdle /\ AnalyzeIdle
    /\ reg = NoReg /\ result = NoResult /\ err = "none"

\* a caller outside the repository calls run_grover(o)
Call_run_grover(o) ==
    /\ pc = "idle"
    /\ caller' = "user" /\ oracle' = o /\ pc' = "L27"
    /\ UNCHANGED <<n, reg, gates_applied, result, err, i, hits, freeVars, algebraVars, tensorVars, analyzeVars>>

\* tests_for_grover.py 87-88
Test_start ==
    /\ pc = "idle"
    /\ caller' = "test" /\ hits' = 0 /\ i' = 0 /\ pc' = "loop"
    /\ UNCHANGED <<oracle, n, reg, gates_applied, result, err, freeVars, algebraVars, tensorVars, analyzeVars>>

\* tests_for_grover.py 89-90: the next iteration calls run_grover(OracleAND())
Test_loop ==
    /\ pc = "loop"
    /\ IF i < Attempts
       THEN oracle' = OracleAND /\ pc' = "L27"
       ELSE oracle' = oracle /\ pc' = "assert"
    /\ UNCHANGED <<caller, n, reg, gates_applied, result, err, i, hits, freeVars, algebraVars, tensorVars, analyzeVars>>

\* grover.py 27-29
Grover_init ==
    /\ pc = "L27"
    /\ LET oracle_gate == Oracle_to_gate(oracle)
           nn == IntLog2(Rows(oracle_gate.gate_matrix))
       IN  /\ n' = nn
           /\ reg' = QuantumRegister(nn)
    /\ gates_applied' = 0 /\ result' = NoResult /\ pc' = "L31"
    /\ UNCHANGED <<caller, oracle, err, i, hits, freeVars, algebraVars, tensorVars, analyzeVars>>

\* one reg.apply_gate(m) statement of run_grover, continuing at next
Grover_apply(m, next) ==
    LET r == apply_gate(reg, m)
    IN  /\ reg' = r.self
        /\ IF r.raised = "none"
           THEN gates_applied' = gates_applied + 1 /\ err' = err /\ pc' = next
           ELSE gates_applied' = gates_applied /\ err' = r.raised /\ pc' = "raised"

\* grover.py 31-35
Grover_hadamard ==
    /\ pc = "L31"
    /\ LET h == Gate_H
           h_total == FoldTensor(h, h, n - 1)
       IN  Grover_apply(h_total.gate_matrix, "L37")
    /\ UNCHANGED <<caller, oracle, n, result, i, hits, freeVars, algebraVars, tensorVars, analyzeVars>>

\* grover.py 37 (oracle_gate is the local of line 27)
Grover_oracle ==
    /\ pc = "L37"
    /\ LET oracle_gate == Oracle_to_gate(oracle)
       IN  Grover_apply(oracle_gate.gate_matrix, "L39")
    /\ UNCHANGED <<caller, oracle, n, result, i, hits, freeVars, algebraVars, tensorVars, analyzeVars>>

\* grover.py 39-40
Grover_diffusion ==
    /\ pc = "L39"
    /\ Grover_apply(Diffusion_to_gate(n).gate_matrix, "L43")
    /\ UNCHANGED <<caller, oracle, n, result, i, hits, freeVars, algebraVars, tensorVars, analyzeVars>>

\* grover.py 43
Grover_measure ==
    /\ pc = "L43"
    /\ \E o \in measure(reg) :
          /\ reg' = o.self
          /\ IF o.raised = "none"
             THEN result' = o.ret /\ err' = err /\ pc' = "returned"
             ELSE result' = result /\ err' = o.raised /\ pc' = "raised"
    /\ UNCHANGED <<caller, oracle, n, gates_applied, i, hits, freeVars, algebraVars, tensorVars, analyzeVars>>

\* tests_for_grover.py 93-94
Test_count ==
    /\ pc = "returned" /\ caller = "test"
    /\ hits' = IF result = 3 THEN hits + 1 ELSE hits
    /\ i' = i + 1
    /\ pc' = "loop"
    /\ UNCHANGED <<caller, oracle, n, reg, gates_applied, result, err, freeVars, algebraVars, tensorVars, analyzeVars>>

\* tests_for_grover.py 96: assert hits >= attempts * 0.8
Test_assert ==
    /\ pc = "assert"
    /\ IF 10 * hits >= 8 * Attempts
       THEN pc' = "passed" /\ err' = err
       ELSE pc' = "failed" /\ err' = "AssertionError"
    /\ UNCHANGED <<caller, oracle, n, reg, gates_applied, result, i, hits, freeVars, algebraVars, tensorVars, analyzeVars>>

Next ==
    \/ \E o \in Oracles : Call_run_grover(o)
    \/ Test_start
    \/ Test_loop
    \/ Grover_init
    \/ Grover_hadamard
    \/ Grover_oracle
    \/ Grover_diffusion
    \/ Grover_measure
    \/ Test_count
    \/ Test_assert

Spec == Init /\ [][Next]_vars

(***************************************************************************)
(* Free use of a Register and of a Qubit: any sequence of at most MaxCalls *)
(* calls, with square matrices of the right and of the wrong dimension,    *)
(* unitary or not.                                                         *)
(***************************************************************************)
\* diag(1, i), a unitary matrix that is not real
PhaseS == << <<COne, CZero>>, <<CZero, CI>> >>

InputMatrices ==
    {Gate_X.gate_matrix, Gate_H.gate_matrix, Gate_Z.gate_matrix, PhaseS,
     Scale(CInt(2), Eye(2)),
     << <<COne, COne>>, <<CZero, CZero>> >>,
     Eye(1), Eye(3),
     tensor(Gate_H, Gate_H).gate_matrix,
     tensor(Gate_X, Gate_Z).gate_matrix,
     Oracle_to_gate(OracleAND).gate_matrix,
     Diffusion_to_gate(2).gate_matrix,
     Scale(CReal(RPow2(-1)), Eye(4))}
    \cup {FoldTensor(Gate_H, Gate_H, k).gate_matrix : k \in 0..MaxRegQubits}

\* np.array([1, 0]), np.array([0, 1]), np.array([1, 1]), np.array([0, 0])
QubitInputs ==
    {<< <<COne>>, <<CZero>> >>, << <<CZero>>, <<COne>> >>,
     << <<COne>>, <<COne>> >>, << <<CZero>>, <<CZero>> >>}

InitFree ==
    /\ DriverIdle /\ AlgebraIdle /\ TensorIdle /\ AnalyzeIdle
    /\ calls = 0 /\ result = NoResult /\ err = "none"
    /\ \/ /\ \E k \in 1..MaxRegQubits : reg = QuantumRegister(k)
          /\ qubit = NoQubit
          /\ last_call = [op |-> "QuantumRegister", arg |-> NoMatrix]
       \/ /\ \E v \in QubitInputs : qubit = Qubit(v)
          /\ reg = NoReg
          /\ last_call = [op |-> "Qubit", arg |-> NoMatrix]

\* reg.apply_gate(m)
Reg_apply_gate(m) ==
    /\ reg # NoReg /\ calls < MaxCalls
    /\ LET r == apply_gate(reg, m)
       IN  reg' = r.self /\ err' = r.raised
    /\ last_call' = [op |-> "apply_gate", arg |-> m]
    /\ calls' = calls + 1
    /\ UNCHANGED <<result, qubit, driverVars, algebraVars, tensorVars, analyzeVars>>

\* reg.measure()
Reg_measure ==
    /\ reg # NoReg /\ calls < MaxCalls
    /\ \E o \in measure(reg) :
          reg' = o.self /\ err' = o.raised /\ result' = o.ret
    /\ last_call' = [op |-> "measure", arg |-> NoMatrix]
    /\ calls' = calls + 1
    /\ UNCHANGED <<qubit, driverVars, algebraVars, tensorVars, analyzeVars>>

\* q = q.apply_gate(m): the caller keeps the Qubit returned, if one is
Qubit_apply(m) ==
    /\ qubit # NoQubit /\ calls < MaxCalls
    /\ LET r == Qubit_apply_gate(qubit, m)
       IN  /\ qubit' = IF r.raised = "none" THEN r.ret ELSE r.self
           /\ err' = r.raised
    /\ last_call' = [op |-> "Qubit.apply_gate", arg |-> m]
    /\ calls' = calls + 1
    /\ UNCHANGED <<result, reg, driverVars, algebraVars, tensorVars, analyzeVars>>

NextFree ==
    \/ \E m \in InputMatrices : Reg_apply_gate(m)
    \/ Reg_measure
    \/ \E m \in InputMatrices : Qubit_apply(m)

SpecFree == InitFree /\ [][NextFree]_vars

(***************************************************************************)
(* The operator algebra: building a gate, an oracle or a diffusion         *)
(* operator and checking it, as tests_for_grover.py does for n = 2.        *)
(***************************************************************************)
\* the qubit counts the unitarity property is stated for: 1 through 5
UnitaryQubitCounts == 1..5

AlgebraInputs ==
    {[kind |-> kd, n |-> k, f |-> NoPredicate] :
        kd \in {"H", "X", "Z", "diffusion"}, k \in UnitaryQubitCounts}
    \cup UNION {{[kind |-> "oracle", n |-> k, f |-> f] : f \in Predicates(k)} :
                    k \in UnitaryQubitCounts}

InitAlgebra ==
    /\ DriverIdle /\ FreeIdle /\ TensorIdle /\ AnalyzeIdle
    /\ reg = NoReg /\ result = NoResult /\ err = "none"
    /\ op \in AlgebraInputs
    /\ gate = NoGate /\ verdict = "unchecked" /\ reflected = NoMatrix

\* the n-fold tensor product of a single-qubit gate, folded as run_grover does
Build_layer(kd, g) ==
    /\ op.kind = kd /\ gate = NoGate
    /\ gate' = FoldTensor(g, g, op.n - 1)
    /\ UNCHANGED <<op, verdict, reflected, reg, result, err, driverVars, freeVars, tensorVars, analyzeVars>>

\* GenericOracle(n) with get_function() = f, then to_gate()
Build_oracle ==
    /\ op.kind = "oracle" /\ gate = NoGate
    /\ gate' = Oracle_to_gate(GenericOracle(op.n, op.f))
    /\ UNCHANGED <<op, verdict, reflected, reg, result, err, driverVars, freeVars, tensorVars, analyzeVars>>

\* StandardDiffusion(n).to_gate()
Build_diffusion ==
    /\ op.kind = "diffusion" /\ gate = NoGate
    /\ gate' = Diffusion_to_gate(op.n)
    /\ UNCHANGED <<op, verdict, reflected, reg, result, err, driverVars, freeVars, tensorVars, analyzeVars>>

\* gate.is_unitary()
Check_is_unitary ==
    /\ gate # NoGate /\ verdict = "unchecked"
    /\ verdict' = IF is_unitary(gate) THEN "True" ELSE "False"
    /\ UNCHANGED <<op, gate, reflected, reg, result, err, driverVars, freeVars, tensorVars, analyzeVars>>

\* test_diffusion_matrix: reflected = D @ psi, psi the uniform superposition
Reflect_psi ==
    /\ op.kind = "diffusion" /\ gate # NoGate /\ reflected = NoMatrix
    /\ reflected' = MatMul(gate.gate_matrix, get_psi(op.n))
    /\ UNCHANGED <<op, gate, verdict, reg, result, err, driverVars, freeVars, tensorVars, analyzeVars>>

NextAlgebra ==
    \/ Build_layer("H", Gate_H)
    \/ Build_layer("X", Gate_X)
    \/ Build_layer("Z", Gate_Z)
    \/ Build_oracle
    \/ Build_diffusion
    \/ Check_is_unitary
    \/ Reflect_psi

SpecAlgebra == InitAlgebra /\ [][NextAlgebra]_vars

\* ---- tensor products: A.tensor(B) on any two gates, and the fold of --------
\* ---- run_grover (grover.py 29-35) for every register size ------------------

TensorGates ==
    {Gate_X, Gate_H, Gate_Z, GenericGate(PhaseS),
     GenericGate(Scale(CInt(2), Eye(2))),
     GenericGate(<< <<COne, COne>>, <<CZero, CZero>> >>),
     GenericGate(Eye(1)), GenericGate(Eye(3)),
     tensor(Gate_H, Gate_H), tensor(Gate_X, Gate_Z),
     Oracle_to_gate(OracleAND), Diffusion_to_gate(2)}

\* either two gates about to be tensored (pc = "pair"), or run_grover at
\* line 29 with n already computed (pc = "L29")
InitTensor ==
    /\ caller = "none" /\ oracle = OracleAND /\ gates_applied = 0 /\ i = 0 /\ hits = 0
    /\ FreeIdle /\ AlgebraIdle /\ AnalyzeIdle
    /\ reg = NoReg /\ result = NoResult /\ err = "none" /\ product = NoGate
    /\ \/ /\ pc = "pair" /\ n = 0
          /\ operands \in [self : TensorGates, other_gate : TensorGates]
       \/ /\ pc = "L29" /\ n \in 1..MaxQubits
          /\ operands = NoOperands

\* product = A.tensor(B); operands become A and B as the call left them
Tensor_pair ==
    /\ pc = "pair"
    /\ LET r == tensor_call(operands.self, operands.other_gate)
       IN  /\ product' = r.ret
           /\ operands' = [self |-> r.self, other_gate |-> r.other_gate]
    /\ pc' = "paired"
    /\ UNCHANGED <<caller, oracle, n, reg, gates_applied, result, err, i, hits,
                   freeVars, algebraVars, analyzeVars>>

\* grover.py 29-32: reg = QuantumRegister(n); h = Gate_H(); h_total = h.
\* operands.self holds h_total and operands.other_gate holds h
Fold_start ==
    /\ pc = "L29"
    /\ reg' = QuantumRegister(n)
    /\ operands' = [self |-> Gate_H, other_gate |-> Gate_H]
    /\ i' = 0 /\ pc' = "L33"
    /\ UNCHANGED <<caller, oracle, n, gates_applied, result, err, hits, product,
                   freeVars, algebraVars, analyzeVars>>

\* grover.py 33-34: one pass of for _ in range(n - 1): h_total = h_total.tensor(h)
Tensor_fold ==
    /\ pc = "L33" /\ i < n - 1
    /\ LET r == tensor_call(operands.self, operands.other_gate)
       IN  /\ product' = r.ret
           /\ operands' = [self |-> r.ret, other_gate |-> r.other_gate]
    /\ i' = i + 1
    /\ UNCHANGED <<caller, oracle, pc, n, reg, gates_applied, result, err, hits,
                   freeVars, algebraVars, analyzeVars>>

\* grover.py 35: the loop is exhausted; reg.apply_gate(h_total.gate_matrix)
Fold_apply ==
    /\ pc = "L33" /\ i >= n - 1
    /\ LET r == apply_gate(reg, operands.self.gate_matrix)
       IN  /\ reg' = r.self
           /\ err' = r.raised
           /\ gates_applied' = IF r.raised = "none" THEN gates_applied + 1
                               ELSE gates_applied
           /\ pc' = IF r.raised = "none" THEN "applied" ELSE "raised"
    /\ UNCHANGED <<caller, oracle, n, result, i, hits, tensorVars,
                   freeVars, algebraVars, analyzeVars>>

NextTensor ==
    \/ Tensor_pair
    \/ Fold_start
    \/ Tensor_fold
    \/ Fold_apply

SpecTensor == InitTensor /\ [][NextTensor]_vars

\* ---- Analyze_probability/analyze_grover.py: analyze_probability ------------

\* the call analyze_probability(max_iterations), about to run line 14
InitAnalyze ==
    /\ caller = "none" /\ oracle = OracleAND /\ n = 0
    /\ gates_applied = 0 /\ i = 0 /\ hits = 0
    /\ FreeIdle /\ AlgebraIdle /\ TensorIdle
    /\ reg = NoReg /\ result = NoResult /\ err = "none"
    /\ pc = "a14"
    /\ max_iterations \in 0..MaxIterations
    /\ results = <<>>

\* one reg.apply_gate(m) statement of analyze_probability, continuing at next
Analyze_apply(r, next) ==
    /\ reg' = r.self
    /\ err' = r.raised
    /\ gates_applied' = IF r.raised = "none" THEN gates_applied + 1 ELSE gates_applied
    /\ pc' = IF r.raised = "none" THEN next ELSE "raised"

\* analyze_grover.py 14-24: the gates, reg = QuantumRegister(2),
\* reg.apply_gate(h_gate.tensor(h_gate).gate_matrix), results = []
Analyze_setup ==
    /\ pc = "a14"
    /\ LET h_gate == Gate_H
           H2 == tensor(h_gate, h_gate)
       IN  Analyze_apply(apply_gate(QuantumRegister(2), H2.gate_matrix), "a25")
    /\ results' = <<>> /\ i' = 0
    /\ UNCHANGED <<caller, oracle, n, result, hits, max_iterations,
                   freeVars, algebraVars, tensorVars>>

\* analyze_grover.py 25-27: the next i of range(max_iterations + 1);
\* prob = np.abs(reg.get_state()[3, 0]) ** 2; results.append(prob)
Analyze_record ==
    /\ pc = "a25" /\ i < max_iterations + 1
    /\ LET prob == Abs2(reg.state[3 + 1][0 + 1])
       IN  results' = Append(results, prob)
    /\ pc' = "a32"
    /\ UNCHANGED <<caller, oracle, n, reg, gates_applied, result, err, i, hits,
                   max_iterations, freeVars, algebraVars, tensorVars>>

\* analyze_grover.py 32: reg.apply_gate(oracle.get_matrix())
Analyze_oracle ==
    /\ pc = "a32"
    /\ Analyze_apply(apply_gate(reg, Oracle_get_matrix(oracle.n, oracle.f)), "a33")
    /\ UNCHANGED <<caller, oracle, n, result, i, hits, analyzeVars,
                   freeVars, algebraVars, tensorVars>>

\* analyze_grover.py 33: reg.apply_gate(diffuser.get_matrix()), end of the body
Analyze_diffusion ==
    /\ pc = "a33"
    /\ Analyze_apply(apply_gate(reg, Diffusion_get_matrix(2)), "a25")
    /\ i' = i + 1
    /\ UNCHANGED <<caller, oracle, n, result, hits, analyzeVars,
                   freeVars, algebraVars, tensorVars>>

\* analyze_grover.py 35: the range is exhausted; return results
Analyze_return ==
    /\ pc = "a25" /\ i >= max_iterations + 1
    /\ pc' = "returned"
    /\ UNCHANGED <<caller, oracle, n, reg, gates_applied, result, err, i, hits,
                   analyzeVars, freeVars, algebraVars, tensorVars>>

NextAnalyze ==
    \/ Analyze_setup
    \/ Analyze_record
    \/ Analyze_oracle
    \/ Analyze_diffusion
    \/ Analyze_return

SpecAnalyze == InitAnalyze /\ [][NextAnalyze]_vars

(***************************************************************************)
(* Properties                                                              *)
(***************************************************************************)
RHalf == RPow2(-1)
CHalf == CReal(RHalf)

\* C1 (Spec): for the two-qubit AND oracle, the state run_grover is about to
\* measure (Hadamard layer, oracle and standard diffusion applied to |00>)
\* has probability 1 at index 3 and probability 0 at indices 0, 1 and 2.
C1_AmplifiedState ==
    (oracle = OracleAND /\ pc = "L43") =>
        Probabilities(reg.state) = <<RZero, RZero, RZero, ROne>>

C1_Witness ==
    /\ oracle = OracleAND /\ pc = "L43" /\ gates_applied = 3
    /\ reg.num_qubits = 2

\* C2 (Spec): when test_run_grover has run its 20 trials with the two-qubit
\* AND oracle, at least 16 of them returned index 3, whatever measure drew;
\* and every index run_grover returned has non-zero probability in the
\* state measured.
C2_SixteenOfTwenty ==
    /\ (caller = "test" /\ i = 20) => hits >= 16
    /\ (caller = "test" /\ pc = "returned") =>
          /\ result \in 0..(Pow2(n) - 1)
          /\ Probabilities(reg.state)[result + 1] # RZero

C2_Witness == caller = "test" /\ i = 20 /\ pc = "passed" /\ hits >= 16

\* C3 (SpecAlgebra): the oracle matrix built from n and f is 2^n x 2^n, its
\* diagonal entry i is -1 where f(i) = 1 and +1 where f(i) = 0, its other
\* entries are 0; for the AND predicate on two qubits it is diag(1,1,1,-1).
C3_OracleMatrix ==
    (op.kind = "oracle" /\ gate # NoGate) =>
        LET M == gate.gate_matrix
            size == Pow2(op.n)
        IN  /\ Rows(M) = size
            /\ \A r \in 1..size :
                  /\ Len(M[r]) = size
                  /\ \A c \in 1..size :
                        M[r][c] = IF r # c THEN CZero
                                  ELSE IF op.f[r - 1] = 1 THEN CInt(-1) ELSE CInt(1)
            /\ (op.n = 2 /\ op.f = OracleAND.f) =>
                  M = << <<COne, CZero, CZero, CZero>>,
                         <<CZero, COne, CZero, CZero>>,
                         <<CZero, CZero, COne, CZero>>,
                         <<CZero, CZero, CZero, CInt(-1)>> >>

C3_Witness ==
    /\ op.kind = "oracle" /\ gate # NoGate
    /\ op.n = 2 /\ op.f = OracleAND.f

\* the uniform superposition of 2^k entries, written out: every entry is
\* the positive real whose square is 1 / 2^k
IsUniform(column, k) ==
    /\ Rows(column) = Pow2(k)
    /\ \A r \in 1..Pow2(k) :
          /\ Len(column[r]) = 1
          /\ column[r][1].im = RZero
          /\ RPositive(column[r][1].re)
          /\ RMul(column[r][1].re, column[r][1].re) = RPow2(-k)

\* C4 (SpecAlgebra): the standard diffusion matrix on n qubits maps the
\* uniform superposition psi of dimension 2^n to itself: D @ psi = psi.
C4_DiffusionFixesPsi ==
    (op.kind = "diffusion" /\ reflected # NoMatrix) =>
        /\ IsUniform(reflected, op.n)
        /\ reflected = get_psi(op.n)

C4_Witness ==
    /\ op.kind = "diffusion" /\ reflected # NoMatrix /\ op.n = 3
    /\ Rows(gate.gate_matrix) = 8

\* C5 (Spec): after run_grover has applied the n-fold tensor product of the
\* Hadamard gate to the fresh n-qubit register, all 2^n amplitudes are
\* equal, real and positive with squared magnitude 1 / 2^n; for n = 2 the
\* state is [0.5, 0.5, 0.5, 0.5].
C5_UniformSuperposition ==
    (pc = "L37") =>
        /\ IsUniform(reg.state, n)
        /\ \A r \in 1..Pow2(n) : reg.state[r][1] = reg.state[1][1]
        /\ \A r \in 1..Pow2(n) : Abs2(reg.state[r][1]) = RPow2(-n)
        /\ n = 2 => reg.state = << <<CHalf>>, <<CHalf>>, <<CHalf>>, <<CHalf>> >>

C5_Witness ==
    /\ pc = "L37" /\ n = 3 /\ gates_applied = 1
    /\ Rows(reg.state) = 8

\* C6 (SpecAlgebra): is_unitary returns true for the n-fold tensor products
\* of Hadamard, Pauli-X and Pauli-Z, for the oracle of every predicate
\* drawn and for the standard diffusion operator, for n = 1..5.
C6_AllUnitary == verdict # "False"

C6_Witness ==
    /\ verdict = "True" /\ op.n = 5 /\ op.kind = "diffusion"
    /\ Rows(gate.gate_matrix) = 32

\* C7 (SpecFree): the squared magnitudes of a Register's amplitudes sum to
\* 1 after creation and after every apply_gate call with a matrix of
\* dimension 2^n.
C7_AlwaysNormalised ==
    reg # NoReg => Norm2(reg.state) = ROne

\* C8 (SpecFree): an apply_gate call with a square matrix whose dimension
\* is not the length of the state raises, and leaves the Register (the
\* Qubit) as it was; the state of a Register never changes its length.
C8_MismatchRaises ==
    [][/\ (last_call'.op = "apply_gate" /\ Rows(last_call'.arg) # Rows(reg.state)) =>
              (err' = "ValueError" /\ reg' = reg)
       /\ (last_call'.op = "Qubit.apply_gate"
              /\ Rows(last_call'.arg) # Rows(qubit.alfa_beta)) =>
              (err' = "ValueError" /\ qubit' = qubit)
       /\ reg # NoReg =>
              (Rows(reg'.state) = Pow2(reg.num_qubits)
                  /\ reg'.num_qubits = reg.num_qubits)]_vars

C8_Witness ==
    /\ last_call.op = "apply_gate" /\ err = "ValueError"
    /\ Rows(last_call.arg) = 2 /\ Rows(reg.state) = 4

\* C9 (Spec): when the oracle's matrix dimension is no power of two,
\* run_grover creates no register, applies no gate and returns no index.
C9_FailsFast ==
    (caller = "user" /\ ~IsPowerOfTwo(OracleDim(oracle))) =>
        (reg = NoReg /\ gates_applied = 0 /\ result = NoResult)

\* C10 (SpecFree): a measure call leaves the Register as it was, whatever
\* index it returns, so the next measure draws from the same outcomes.
C10_MeasureDoesNotMutate ==
    [][last_call'.op = "measure" => (reg' = reg /\ measure(reg') = measure(reg))]_vars

C10_Witness ==
    /\ last_call.op = "measure" /\ err = "none" /\ result = 3
    /\ Cardinality(measure(reg)) = 4

\* C11 (SpecTensor): A.tensor(B) returns a gate whose matrix has
\* dim(A) * dim(B) rows and columns and leaves A and B as they were; each
\* pass of run_grover's fold doubles h_total and leaves h alone, the fold
\* makes exactly n - 1 tensor calls, and the folded gate has dimension 2^n,
\* the dimension of the n-qubit register, which takes it without an error.
C11_TensorDimension ==
    [][/\ (pc = "pair" /\ pc' = "paired") =>
              /\ Rows(product'.gate_matrix) =
                     Rows(operands.self.gate_matrix) * Rows(operands.other_gate.gate_matrix)
              /\ Cols(product'.gate_matrix) =
                     Cols(operands.self.gate_matrix) * Cols(operands.other_gate.gate_matrix)
              /\ operands' = operands
       /\ (pc = "L33" /\ pc' = "L33") =>
              /\ operands'.other_gate = operands.other_gate
              /\ operands'.self = product'
              /\ Rows(product'.gate_matrix) = 2 * Rows(operands.self.gate_matrix)
              /\ Cols(product'.gate_matrix) = 2 * Cols(operands.self.gate_matrix)
       /\ (pc = "L33" /\ pc' # "L33") =>
              /\ i = n - 1
              /\ Rows(operands.self.gate_matrix) = Pow2(n)
              /\ Cols(operands.self.gate_matrix) = Pow2(n)
              /\ Rows(reg.state) = Pow2(n)
              /\ pc' = "applied" /\ err' = "none"
              /\ Rows(reg'.state) = Pow2(n)]_vars

C11_Witness ==
    /\ pc = "applied" /\ n = 3 /\ i = 2 /\ err = "none"
    /\ Rows(product.gate_matrix) = 8 /\ operands.self = product
    /\ operands.other_gate = Gate_H /\ Rows(reg.state) = 8

\* the state of the 2-qubit register after the Hadamard layer and k
\* oracle + diffusion iterations on the AND oracle
RECURSIVE AfterIterations(_)
AfterIterations(k) ==
    IF k = 0 THEN MatMul(tensor(Gate_H, Gate_H).gate_matrix, QuantumRegister(2).state)
    ELSE MatMul(Diffusion_get_matrix(2),
                MatMul(Oracle_get_matrix(2, OracleAND_function), AfterIterations(k - 1)))

RQuarter == RPow2(-2)

\* C12 (SpecAnalyze): entry j of analyze_probability's list is the
\* probability of index 3 after the Hadamard layer and j iterations; it is
\* 1 when j mod 3 = 1 and 1/4 otherwise, so the list repeats with period 3
\* and stays within [0, 1]; no gate is refused, and the returned list has
\* exactly max_iterations + 1 entries.
C12_ProbabilityTrace ==
    /\ err = "none" /\ pc # "raised"
    /\ Len(results) <= max_iterations + 1
    /\ \A j \in 0..(Len(results) - 1) :
          /\ results[j + 1] = IF j % 3 = 1 THEN ROne ELSE RQuarter
          /\ results[j + 1] = Abs2(AfterIterations(j)[4][1])
          /\ ~RPositive(RNeg(results[j + 1]))
          /\ ~RPositive(RSub(results[j + 1], ROne))
          /\ (results[j + 1] = ROne) <=> (j % 3 = 1)
          /\ j >= 3 => results[j + 1] = results[j - 2]
    /\ pc = "a32" => Len(results) = i + 1
    /\ pc \in {"a25", "returned"} => Len(results) = i
    /\ pc = "returned" => Len(results) = max_iterations + 1

C12_Witness ==
    /\ pc = "returned" /\ max_iterations = 5
    /\ results = <<RQuarter, ROne, RQuarter, RQuarter, ROne, RQuarter>>

====
